---- MODULE Spec2Model ----
(***************************************************************************)
(* HiSet: ordered set stored in a balanced binary tree with subtree node   *)
(* counts (src/hitree/src/hiset.rs).                                       *)
(*                                                                         *)
(* A Ref<T> is the record [count, node]; node models Option<Box<Node<T>>>  *)
(* as a sequence of length 0 (None) or 1 (Some).  A Node<T> is the record  *)
(* [value, left, right].  Option<X> results are sequences of length <= 1.  *)
(* Every mutating method of Ref is an operator from the old `self` to a    *)
(* record holding the new `self` (ref), the returned value (res) and       *)
(* whether the call panicked (unwrap of None, usize underflow).            *)
(***************************************************************************)
EXTENDS Integers, Sequences, FiniteSets

\* Values of T offered to the set: 1..MaxVal.
MaxVal == 5

Vals == 1..MaxVal

\* insert is offered while len() < MaxLen.
MaxLen == 5

\* Indices offered to the by-index operations: 0..MaxVal (MaxVal is always
\* out of range).
Indices == 0..MaxVal

\* Calls of next() offered to the owned iterator after it is exhausted.
ExtraCalls == 2
\* Longest input sequence handed to HiSet::from.
MaxSeq == 5

\* usize is narrowed to UsizeBits bits, so that usize::MAX is an index the
\* model can offer. No count reaches it: a set holds at most MaxLen values.
UsizeBits == 3

usize_MAX == 2^UsizeBits - 1

\* root: the set's root Ref; op, arg, res: the last call, its argument and
\* what it returned; panicked: a call panicked; it: the iterator alive on the
\* set, if any; yielded: what the owned iterator's next() calls returned;
\* abstract: the multiset kept beside the set from what its calls report.
VARIABLES root, op, arg, res, panicked, it, yielded, abstract

vars == <<root, op, arg, res, panicked, it, yielded, abstract>>

None == <<>>

Some(x) == <<x>>

\*---------------- lib.rs ---------------------------------------------------

\* 0_usize.leading_zeros() - count.leading_zeros(): the bit length of count.
RECURSIVE tree_height(_)
tree_height(count) ==
    IF count = 0 THEN 0 ELSE 1 + tree_height(count \div 2)

\*---------------- Node -----------------------------------------------------

\* Ref::default
Ref_default == [count |-> 0, node |-> None]

\* Node::new
Node_new(value) == [value |-> value, left |-> Ref_default, right |-> Ref_default]

\* Node::count
Node_count(node) == node.left.count + node.right.count + 1

\* Node::balance
Node_balance(node) == tree_height(node.right.count) - tree_height(node.left.count)

\*---------------- Ref ------------------------------------------------------

\* Ref::to
Ref_to(node) == [count |-> 1 + node.left.count + node.right.count, node |-> Some(node)]

\* Ref::is_empty
is_empty(self) == self.node = None

\* The node behind a non-empty Ref (Ref::node / node_mut, unwrapped).
NodeOf(self) == self.node[1]

\* Ref::balance (panics on an empty Ref: callers test is_empty first)
Ref_balance(self) == Node_balance(NodeOf(self))

\* Ref::take_left_subtree: ref is self afterwards, sub the detached subtree.
take_left_subtree(self) ==
    IF is_empty(self)
    THEN [ref |-> self, sub |-> Ref_default, panic |-> FALSE]
    ELSE LET node == NodeOf(self)
             left == node.left
         IN [ref   |-> [count |-> self.count - left.count,
                        node  |-> Some([node EXCEPT !.left = Ref_default])],
             sub   |-> left,
             panic |-> self.count < left.count]

\* Ref::take_right_subtree
take_right_subtree(self) ==
    IF is_empty(self)
    THEN [ref |-> self, sub |-> Ref_default, panic |-> FALSE]
    ELSE LET node  == NodeOf(self)
             right == node.right
         IN [ref   |-> [count |-> self.count - right.count,
                        node  |-> Some([node EXCEPT !.right = Ref_default])],
             sub   |-> right,
             panic |-> self.count < right.count]

\* Ref::set_left (self non-empty; the unwrap is the caller's panic test)
set_left(self, subtree) ==
    LET node == [NodeOf(self) EXCEPT !.left = subtree]
    IN [count |-> Node_count(node), node |-> Some(node)]

\* Ref::set_right
set_right(self, subtree) ==
    LET node == [NodeOf(self) EXCEPT !.right = subtree]
    IN [count |-> Node_count(node), node |-> Some(node)]

\* What a panicking call leaves behind: the call never returns.
Panic == [ref |-> Ref_default, res |-> None, panic |-> TRUE]

\* Ref::rotate_left
rotate_left(self) ==
    LET t1 == take_right_subtree(self)      \* old_root, new_root
        t2 == take_left_subtree(t1.sub)     \* new_root, mid_subtree
    IN IF t1.panic \/ t2.panic \/ is_empty(t1.ref) \/ is_empty(t2.ref)
       THEN Panic
       ELSE [ref   |-> set_left(t2.ref, set_right(t1.ref, t2.sub)),
             res   |-> None,
             panic |-> FALSE]

\* Ref::rotate_right
rotate_right(self) ==
    LET t1 == take_left_subtree(self)       \* old_root, new_root
        t2 == take_right_subtree(t1.sub)    \* new_root, mid_subtree
    IN IF t1.panic \/ t2.panic \/ is_empty(t1.ref) \/ is_empty(t2.ref)
       THEN Panic
       ELSE [ref   |-> set_right(t2.ref, set_left(t1.ref, t2.sub)),
             res   |-> None,
             panic |-> FALSE]

\* Ref::insert
RECURSIVE Ref_insert(_, _)
Ref_insert(self, new_node) ==
    IF is_empty(self)
    THEN [ref |-> Ref_to(new_node), res |-> TRUE, panic |-> FALSE]
    ELSE LET node == NodeOf(self)
         IN IF node.value = new_node.value
            THEN [ref |-> self, res |-> FALSE, panic |-> FALSE]
            ELSE IF node.value < new_node.value
            THEN LET r == Ref_insert(node.right, new_node)
                     s == [count |-> self.count + 1,
                           node  |-> Some([node EXCEPT !.right = r.ref])]
                 IN IF r.panic THEN Panic
                    ELSE IF r.res
                    THEN IF Ref_balance(s) > 1
                         THEN [rotate_left(s) EXCEPT !.res = TRUE]
                         ELSE [ref |-> s, res |-> TRUE, panic |-> FALSE]
                    ELSE [ref |-> self, res |-> FALSE, panic |-> FALSE]
            ELSE LET r == Ref_insert(node.left, new_node)
                     s == [count |-> self.count + 1,
                           node  |-> Some([node EXCEPT !.left = r.ref])]
                 IN IF r.panic THEN Panic
                    ELSE IF r.res
                    THEN IF Ref_balance(s) < -1
                         THEN [rotate_right(s) EXCEPT !.res = TRUE]
                         ELSE [ref |-> s, res |-> TRUE, panic |-> FALSE]
                    ELSE [ref |-> self, res |-> FALSE, panic |-> FALSE]

\* rebalance without the `self.count = 0` of its empty arm.
rebalance_keeps_count(self) ==
    IF ~is_empty(self)
    THEN LET s == [self EXCEPT !.count = Node_count(NodeOf(self))]
             balance == Ref_balance(s)
         IN IF balance < -1 THEN rotate_right(s)
            ELSE IF balance > 1 THEN rotate_left(s)
            ELSE [ref |-> s, res |-> None, panic |-> FALSE]
    ELSE [ref |-> self, res |-> None, panic |-> FALSE]

\* Ref::rebalance
rebalance(self) ==
    IF ~is_empty(self)
    THEN LET s == [self EXCEPT !.count = Node_count(NodeOf(self))]
             balance == Ref_balance(s)
         IN IF balance < -1 THEN rotate_right(s)
            ELSE IF balance > 1 THEN rotate_left(s)
            ELSE [ref |-> s, res |-> None, panic |-> FALSE]
    ELSE [ref |-> [self EXCEPT !.count = 0], res |-> None, panic |-> FALSE]

\* Ref::take_leftmost_node
RECURSIVE take_leftmost_node(_)
take_leftmost_node(self) ==
    IF is_empty(self)
    THEN [ref |-> self, res |-> None, panic |-> FALSE]
    ELSE LET node == NodeOf(self)
             r    == take_leftmost_node(node.left)
         IN IF r.panic THEN Panic
            ELSE IF r.res = None
            THEN \* removed_node = self.node.take(); *self = removed_node.right.take()
                 [ref   |-> node.right,
                  res   |-> Some([node EXCEPT !.right = Ref_default]),
                  panic |-> FALSE]
            ELSE LET s == [count |-> self.count - 1,
                           node  |-> Some([node EXCEPT !.left = r.ref])]
                 IN IF self.count < 1 THEN Panic
                    ELSE IF Ref_balance(s) > 1
                    THEN [rotate_left(s) EXCEPT !.res = r.res]
                    ELSE [ref |-> s, res |-> r.res, panic |-> FALSE]

\* Ref::take_rightmost_node (line 927 descends with take_leftmost_node)
take_rightmost_node(self) ==
    IF is_empty(self)
    THEN [ref |-> self, res |-> None, panic |-> FALSE]
    ELSE LET node == NodeOf(self)
             r    == take_leftmost_node(node.right)
         IN IF r.panic THEN Panic
            ELSE IF r.res = None
            THEN \* removed_node = self.node.take(); *self = removed_node.left.take()
                 [ref   |-> node.left,
                  res   |-> Some([node EXCEPT !.left = Ref_default]),
                  panic |-> FALSE]
            ELSE LET s == [count |-> self.count - 1,
                           node  |-> Some([node EXCEPT !.right = r.ref])]
                 IN IF self.count < 1 THEN Panic
                    ELSE IF Ref_balance(s) < -1
                    THEN [rotate_right(s) EXCEPT !.res = r.res]
                    ELSE [ref |-> s, res |-> r.res, panic |-> FALSE]

\* The Ordering::Equal arm copying the replacement value in the two-child
\* case without detaching its node from the subtree.
take_this_node_copies(self) ==
    LET node == NodeOf(self)
    IN IF is_empty(node.left) /\ is_empty(node.right)
       THEN [ref |-> [self EXCEPT !.node = None], res |-> Some(node), panic |-> FALSE]
       ELSE IF is_empty(node.right)
       THEN [ref   |-> node.left,
             res   |-> Some([node EXCEPT !.left = Ref_default]),
             panic |-> FALSE]
       ELSE IF is_empty(node.left)
       THEN [ref   |-> node.right,
             res   |-> Some([node EXCEPT !.right = Ref_default]),
             panic |-> FALSE]
       ELSE LET from_left == node.left.count > node.right.count
                t == IF from_left THEN take_rightmost_node(node.left)
                                  ELSE take_leftmost_node(node.right)
            IN IF t.panic \/ t.res = None THEN Panic
               ELSE LET new_subtree_root_node ==
                            [value |-> t.res[1].value,
                             left  |-> node.left,
                             right |-> node.right]
                    IN [ref   |-> [count |-> Node_count(new_subtree_root_node),
                                   node  |-> Some(new_subtree_root_node)],
                        res   |-> Some([node EXCEPT !.left = Ref_default,
                                                    !.right = Ref_default]),
                        panic |-> FALSE]

\* The Ordering::Equal arm shared by take_node_by_key and take_node_by_index:
\* detach the node of the non-empty self, by its child pattern.
take_this_node(self) ==
    LET node == NodeOf(self)
    IN IF is_empty(node.left) /\ is_empty(node.right)
       THEN \* self.node.take(): the count stays until rebalance
            [ref |-> [self EXCEPT !.node = None], res |-> Some(node), panic |-> FALSE]
       ELSE IF is_empty(node.right)
       THEN [ref   |-> node.left,
             res   |-> Some([node EXCEPT !.left = Ref_default]),
             panic |-> FALSE]
       ELSE IF is_empty(node.left)
       THEN [ref   |-> node.right,
             res   |-> Some([node EXCEPT !.right = Ref_default]),
             panic |-> FALSE]
       ELSE LET from_left == node.left.count > node.right.count
                t == IF from_left THEN take_rightmost_node(node.left)
                                  ELSE take_leftmost_node(node.right)
                left_subtree  == IF from_left THEN t.ref ELSE node.left
                right_subtree == IF from_left THEN node.right ELSE t.ref
            IN IF t.panic \/ t.res = None THEN Panic
               ELSE LET new_subtree_root_node ==
                            [value |-> t.res[1].value,
                             left  |-> left_subtree,
                             right |-> right_subtree]
                    IN [ref   |-> [count |-> Node_count(new_subtree_root_node),
                                   node  |-> Some(new_subtree_root_node)],
                        res   |-> Some([node EXCEPT !.left = Ref_default,
                                                    !.right = Ref_default]),
                        panic |-> FALSE]

\* The tail without its `if res.is_some()`: rebalance on every return.
rebalance_always(t) ==
    IF t.panic THEN Panic
    ELSE [rebalance(t.ref) EXCEPT !.res = t.res]

\* The tail of take_node_by_key / take_node_by_index: rebalance self when a
\* node was removed.
rebalance_if_some(t) ==
    IF t.panic THEN Panic
    ELSE IF t.res # None THEN [rebalance(t.ref) EXCEPT !.res = t.res]
    ELSE t

\* Ref::take_node_by_key, the match arms before the tail
RECURSIVE take_node_by_key(_, _)
take_node_by_key_arms(self, key) ==
    IF ~is_empty(self)
    THEN LET node == NodeOf(self)
         IN IF node.value = key THEN take_this_node(self)
            ELSE IF node.value < key
            THEN LET r == take_node_by_key(node.right, key)
                 IN [r EXCEPT !.ref = [self EXCEPT !.node = Some([node EXCEPT !.right = r.ref])]]
            ELSE LET r == take_node_by_key(node.left, key)
                 IN [r EXCEPT !.ref = [self EXCEPT !.node = Some([node EXCEPT !.left = r.ref])]]
    ELSE [ref |-> self, res |-> None, panic |-> FALSE]

\* Ref::take_node_by_key
take_node_by_key(self, key) == rebalance_if_some(take_node_by_key_arms(self, key))

\* Ref::take_node_by_index, the match arms before the tail
RECURSIVE take_node_by_index(_, _)
take_node_by_index_arms(self, index_to_take) ==
    IF ~is_empty(self)
    THEN LET node == NodeOf(self)
             index_of_this_node == node.left.count
         IN IF index_of_this_node = index_to_take THEN take_this_node(self)
            ELSE IF index_of_this_node < index_to_take
            THEN LET r == take_node_by_index(node.right,
                                             index_to_take - index_of_this_node - 1)
                 IN [r EXCEPT !.ref = [self EXCEPT !.node = Some([node EXCEPT !.right = r.ref])]]
            ELSE LET r == take_node_by_index(node.left, index_to_take)
                 IN [r EXCEPT !.ref = [self EXCEPT !.node = Some([node EXCEPT !.left = r.ref])]]
    ELSE [ref |-> self, res |-> None, panic |-> FALSE]

\* Ref::take_node_by_index
take_node_by_index(self, index_to_take) ==
    rebalance_if_some(take_node_by_index_arms(self, index_to_take))

\*---------------- HiSet ----------------------------------------------------

\* HiSet::len
len(r) == r.count

\* HiSet::insert
HiSet_insert(r, value) == Ref_insert(r, Node_new(value))

\* .map(|node| node.value) on the Option<Box<Node<T>>> a removal returns
map_value(t) == [t EXCEPT !.res = IF t.res = None THEN None ELSE Some(t.res[1].value)]

\* HiSet::get_by_index, the loop from (index_to_find, current_node)
RECURSIVE get_by_index(_, _)
get_by_index(current, index_to_find) ==
    IF is_empty(current) THEN None
    ELSE LET node == NodeOf(current)
         IN IF node.left.count > index_to_find
            THEN get_by_index(node.left, index_to_find)
            ELSE IF node.left.count = index_to_find
            THEN Some(node.value)
            ELSE get_by_index(node.right, index_to_find - 1 - node.left.count)

\* HiSet::get, the loop from current_node
RECURSIVE HiSet_get(_, _)
HiSet_get(current, key) ==
    IF is_empty(current) THEN None
    ELSE LET node == NodeOf(current)
         IN IF node.value > key THEN HiSet_get(node.left, key)
            ELSE IF node.value = key THEN Some(node.value)
            ELSE HiSet_get(node.right, key)

\* HiSet::index_of, the loop from (current_node, current_index_shift)
RECURSIVE index_of_from(_, _, _)
index_of_from(current, current_index_shift, key) ==
    IF is_empty(current) THEN None
    ELSE LET node == NodeOf(current)
         IN IF node.value > key
            THEN index_of_from(node.left, current_index_shift, key)
            ELSE IF node.value = key
            THEN Some(current_index_shift + node.left.count)
            ELSE index_of_from(node.right, current_index_shift + 1 + node.left.count, key)

\* HiSet::index_of
index_of(r, key) == index_of_from(r, 0, key)

\* HiSet::take_first
take_first(r) == map_value(take_leftmost_node(r))

\* HiSet::take_last
take_last(r) == map_value(take_rightmost_node(r))

\* HiSet::take
HiSet_take(r, key) == map_value(take_node_by_key(r, key))

\* HiSet::take_by_index
take_by_index(r, index) == map_value(take_node_by_index(r, index))

\* From::from stopping at the first value that insert rejects.
RECURSIVE HiSet_from_until_dup(_, _)
HiSet_from_until_dup(s, iterator) ==
    IF iterator = <<>> THEN [ref |-> s, panic |-> FALSE]
    ELSE LET t == HiSet_insert(s, Head(iterator))
         IN IF t.panic THEN [ref |-> t.ref, panic |-> TRUE]
            ELSE IF ~t.res THEN [ref |-> t.ref, panic |-> FALSE]
            ELSE HiSet_from_until_dup(t.ref, Tail(iterator))

\* From::from: the loop, s being the set built so far; the result of insert
\* is dropped.
RECURSIVE HiSet_from(_, _)
HiSet_from(s, iterator) ==
    IF iterator = <<>> THEN [ref |-> s, panic |-> FALSE]
    ELSE LET t == HiSet_insert(s, Head(iterator))
         IN IF t.panic THEN [ref |-> t.ref, panic |-> TRUE]
            ELSE HiSet_from(t.ref, Tail(iterator))

\*---------------- balance inspections on the return path -------------------

\* One `self.balance()` test of a return path, self being the Ref after its
\* count update: the factor read, whether the test that follows it rotates
\* (to_right: `< -1` is tested, to_left: `> 1` is tested), and the factor of
\* the Ref after the rotation.
Inspection(self, to_right, to_left) ==
    LET balance == Ref_balance(self)
        rotated == (to_right /\ balance < -1) \/ (to_left /\ balance > 1)
        t       == IF to_right /\ balance < -1 THEN rotate_right(self)
                   ELSE IF to_left /\ balance > 1 THEN rotate_left(self)
                   ELSE [ref |-> self, res |-> None, panic |-> FALSE]
    IN [balance |-> balance,
        rotated |-> rotated,
        panic   |-> t.panic,
        after   |-> IF t.panic THEN balance ELSE Ref_balance(t.ref)]

\* The inspections made by Ref::insert(self, new_node).
RECURSIVE insert_inspections(_, _)
insert_inspections(self, new_node) ==
    IF is_empty(self) THEN {}
    ELSE LET node == NodeOf(self)
         IN IF node.value = new_node.value THEN {}
            ELSE IF node.value < new_node.value
            THEN LET r == Ref_insert(node.right, new_node)
                     s == [count |-> self.count + 1,
                           node  |-> Some([node EXCEPT !.right = r.ref])]
                 IN insert_inspections(node.right, new_node)
                    \cup (IF ~r.panic /\ r.res THEN {Inspection(s, FALSE, TRUE)} ELSE {})
            ELSE LET r == Ref_insert(node.left, new_node)
                     s == [count |-> self.count + 1,
                           node  |-> Some([node EXCEPT !.left = r.ref])]
                 IN insert_inspections(node.left, new_node)
                    \cup (IF ~r.panic /\ r.res THEN {Inspection(s, TRUE, FALSE)} ELSE {})

\* The inspections made by Ref::take_leftmost_node(self).
RECURSIVE take_leftmost_inspections(_)
take_leftmost_inspections(self) ==
    IF is_empty(self) THEN {}
    ELSE LET node == NodeOf(self)
             r    == take_leftmost_node(node.left)
             s    == [count |-> self.count - 1,
                      node  |-> Some([node EXCEPT !.left = r.ref])]
         IN take_leftmost_inspections(node.left)
            \cup (IF ~r.panic /\ r.res # None /\ self.count >= 1
                  THEN {Inspection(s, FALSE, TRUE)} ELSE {})

\* The inspections made by Ref::take_rightmost_node(self).
take_rightmost_inspections(self) ==
    IF is_empty(self) THEN {}
    ELSE LET node == NodeOf(self)
             r    == take_leftmost_node(node.right)
             s    == [count |-> self.count - 1,
                      node  |-> Some([node EXCEPT !.right = r.ref])]
         IN take_leftmost_inspections(node.right)
            \cup (IF ~r.panic /\ r.res # None /\ self.count >= 1
                  THEN {Inspection(s, TRUE, FALSE)} ELSE {})

\* The inspections made by the Ordering::Equal arm on the non-empty self.
take_this_inspections(self) ==
    LET node == NodeOf(self)
    IN IF is_empty(node.left) \/ is_empty(node.right) THEN {}
       ELSE IF node.left.count > node.right.count
       THEN take_rightmost_inspections(node.left)
       ELSE take_leftmost_inspections(node.right)

\* The inspection made by the tail of take_node_by_key / take_node_by_index,
\* t being the outcome of the match arms: Ref::rebalance on a non-empty self.
rebalance_inspections(t) ==
    IF t.panic \/ t.res = None \/ is_empty(t.ref) THEN {}
    ELSE {Inspection([t.ref EXCEPT !.count = Node_count(NodeOf(t.ref))], TRUE, TRUE)}

\* The inspections made by Ref::take_node_by_key(self, key).
RECURSIVE take_by_key_inspections(_, _)
take_by_key_inspections(self, key) ==
    (IF is_empty(self) THEN {}
     ELSE LET node == NodeOf(self)
          IN IF node.value = key THEN take_this_inspections(self)
             ELSE IF node.value < key THEN take_by_key_inspections(node.right, key)
             ELSE take_by_key_inspections(node.left, key))
    \cup rebalance_inspections(take_node_by_key_arms(self, key))

\* The inspections made by Ref::take_node_by_index(self, index_to_take).
RECURSIVE take_by_index_inspections(_, _)
take_by_index_inspections(self, index_to_take) ==
    (IF is_empty(self) THEN {}
     ELSE LET node == NodeOf(self)
              index_of_this_node == node.left.count
          IN IF index_of_this_node = index_to_take THEN take_this_inspections(self)
             ELSE IF index_of_this_node < index_to_take
             THEN take_by_index_inspections(node.right,
                                            index_to_take - index_of_this_node - 1)
             ELSE take_by_index_inspections(node.left, index_to_take))
    \cup rebalance_inspections(take_node_by_index_arms(self, index_to_take))

\* The inspections made by the public call name(a) on the set r.
Inspections(r, name, a) ==
    IF name = "insert" THEN insert_inspections(r, Node_new(a))
    ELSE IF name = "take_first" THEN take_leftmost_inspections(r)
    ELSE IF name = "take_last" THEN take_rightmost_inspections(r)
    ELSE IF name = "take" THEN take_by_key_inspections(r, a)
    ELSE IF name = "take_by_index" THEN take_by_index_inspections(r, a)
    ELSE {}

\*---------------- iterators ------------------------------------------------

\* std::ops::Bound<usize>
Included(index) == [bound |-> "Included", index |-> index]

Excluded(index) == [bound |-> "Excluded", index |-> index]

Unbounded == [bound |-> "Unbounded", index |-> 0]

\* The bounds offered to range().
Bounds ==
    {Unbounded}
    \cup {Included(i) : i \in Indices \cup {usize_MAX}}
    \cup {Excluded(i) : i \in Indices \cup {usize_MAX}}

\* No iterator is alive.
NoIter == [kind |-> "none", start |-> 0, end |-> 0, root |-> Ref_default]

\* HiSet::iter
HiSet_iter(r) == [kind |-> "borrowed", start |-> 0, end |-> r.count, root |-> Ref_default]

\* `*index + 1` on usize: below usize::MAX the sum; at usize::MAX the
\* addition overflows, which panics in a build with overflow checks (the dev
\* profile) and wraps to 0 in a build without them (the release profile).
add_one(index) ==
    IF index < usize_MAX
    THEN {[value |-> index + 1, panic |-> FALSE]}
    ELSE {[value |-> 0, panic |-> TRUE], [value |-> 0, panic |-> FALSE]}

\* HiSet::range: the outcomes of the call, one per build where they differ.
HiSet_range(r, start_bound, end_bound) ==
    LET as_is(index) == {[value |-> index, panic |-> FALSE]}
        starts == IF start_bound.bound = "Included" THEN as_is(start_bound.index)
                  ELSE IF start_bound.bound = "Excluded" THEN add_one(start_bound.index)
                  ELSE as_is(0)
        ends   == IF end_bound.bound = "Included" THEN add_one(end_bound.index)
                  ELSE IF end_bound.bound = "Excluded" THEN as_is(end_bound.index)
                  ELSE as_is(r.count)
    IN {IF start.panic \/ end.panic
        THEN [it |-> NoIter, panic |-> TRUE]
        ELSE [it    |-> [kind  |-> "borrowed",
                         start |-> start.value,
                         end   |-> end.value,
                         root  |-> Ref_default],
              panic |-> FALSE] : start \in starts, end \in ends}

\* HiSetIterator::next with `>` for `>=`.
HiSetIterator_next_gt(r, self) ==
    IF self.start > self.end
    THEN [it |-> self, res |-> None]
    ELSE [it  |-> [self EXCEPT !.start = self.start + 1],
          res |-> get_by_index(r, self.start)]

\* HiSetIterator::next on the iterator self over the set with root r
HiSetIterator_next(r, self) ==
    IF self.start >= self.end
    THEN [it |-> self, res |-> None]
    ELSE [it  |-> [self EXCEPT !.start = self.start + 1],
          res |-> get_by_index(r, self.start)]

\* HiSetIterator::next_back
HiSetIterator_next_back(r, self) ==
    IF self.start >= self.end
    THEN [it |-> self, res |-> None]
    ELSE [it  |-> [self EXCEPT !.end = self.end - 1],
          res |-> get_by_index(r, self.end - 1)]

\* HiSet::into_iter
HiSet_into_iter(r) == [kind |-> "owned", start |-> 0, end |-> 0, root |-> r]

\* Ref::consume_next: counts are left as they are.
RECURSIVE consume_next(_)
consume_next(self) ==
    IF is_empty(self) THEN [ref |-> self, res |-> None]
    ELSE LET node      == NodeOf(self)
             from_left == consume_next(node.left)
         IN IF from_left.res # None
            THEN [ref |-> [self EXCEPT !.node = Some([node EXCEPT !.left = from_left.ref])],
                  res |-> from_left.res]
            ELSE \* self.node = node.right.node.take()
                 [ref |-> [self EXCEPT !.node = node.right.node],
                  res |-> Some(node.value)]

\* HiSetOwnedIterator::next
HiSetOwnedIterator_next(self) ==
    LET t == consume_next(self.root)
    IN [it |-> [self EXCEPT !.root = t.ref], res |-> t.res]

\*---------------- observation of a tree -----------------------------------

\* In-order sequence of the values stored under a Ref.
RECURSIVE InOrder(_)
InOrder(r) ==
    IF is_empty(r) THEN <<>>
    ELSE InOrder(NodeOf(r).left) \o <<NodeOf(r).value>> \o InOrder(NodeOf(r).right)

\* The set of values stored under a Ref.
Values(r) == {InOrder(r)[i] : i \in 1..Len(InOrder(r))}

\* Number of nodes under a Ref, by traversal.
Size(r) == Len(InOrder(r))

\* Every node's left subtree holds smaller, its right subtree greater values.
RECURSIVE Ordered(_)
Ordered(r) ==
    \/ is_empty(r)
    \/ /\ \A x \in Values(NodeOf(r).left) : x < NodeOf(r).value
       /\ \A x \in Values(NodeOf(r).right) : x > NodeOf(r).value
       /\ Ordered(NodeOf(r).left)
       /\ Ordered(NodeOf(r).right)

\* Every node's balance factor is in [-1, 1].
RECURSIVE Balanced(_)
Balanced(r) ==
    \/ is_empty(r)
    \/ /\ Node_balance(NodeOf(r)) \in -1..1
       /\ Balanced(NodeOf(r).left)
       /\ Balanced(NodeOf(r).right)

\* Every Ref's cached count is 0 when empty, 1 + left.count + right.count otherwise.
RECURSIVE CountsOk(_)
CountsOk(r) ==
    IF is_empty(r) THEN r.count = 0
    ELSE /\ r.count = 1 + NodeOf(r).left.count + NodeOf(r).right.count
         /\ CountsOk(NodeOf(r).left)
         /\ CountsOk(NodeOf(r).right)

\*---------------- the abstract multiset -------------------------------------

\* The empty multiset over the values.
EmptyMultiset == [v \in Vals |-> 0]

\* The multiset m with one more / one fewer occurrence of v.
Added(m, v) == [m EXCEPT ![v] = m[v] + 1]

Removed(m, v) == [m EXCEPT ![v] = m[v] - 1]

TakeOps == {"take", "take_by_index", "take_first", "take_last"}

\* The multiset after the call name(a) has returned out: v is added when
\* insert(v) returns true, x is removed when a take returns Some(x).
AbstractAfter(m, name, a, out) ==
    IF name = "insert" THEN (IF out THEN Added(m, a) ELSE m)
    ELSE IF name \in TakeOps THEN (IF out # None THEN Removed(m, out[1]) ELSE m)
    ELSE m

\* The multiset after HiSet::from: one insert per value of the input.
RECURSIVE AbstractFrom(_, _, _)
AbstractFrom(m, s, iterator) ==
    IF iterator = <<>> THEN m
    ELSE LET t == HiSet_insert(s, Head(iterator))
         IN IF t.panic THEN m
            ELSE AbstractFrom(AbstractAfter(m, "insert", Head(iterator), t.res),
                              t.ref, Tail(iterator))

\*---------------- state machine --------------------------------------------

\* HiSet::new
Init ==
    /\ root = Ref_default
    /\ op = "new"
    /\ arg = 0
    /\ res = None
    /\ panicked = FALSE
    /\ it = NoIter
    /\ yielded = <<>>
    /\ abstract = EmptyMultiset

\* One call of a mutating method: the call's outcome becomes the state.
\* The set is borrowed (or moved) while an iterator is alive.
Call(name, a, out) ==
    /\ ~panicked
    /\ it = NoIter
    /\ UNCHANGED <<it, yielded>>
    /\ root' = out.ref
    /\ op' = name
    /\ arg' = a
    /\ res' = out.res
    /\ panicked' = out.panic
    /\ abstract' = AbstractAfter(abstract, name, a, out.res)

Insert == \E v \in Vals : len(root) < MaxLen /\ Call("insert", v, HiSet_insert(root, v))

TakeFirst == Call("take_first", 0, take_first(root))

TakeLast == Call("take_last", 0, take_last(root))

Take == \E k \in Vals : Call("take", k, HiSet_take(root, k))

TakeByIndex == \E i \in Indices : Call("take_by_index", i, take_by_index(root, i))

\* One call of a method that only reads the set.
Query(name, a, out) ==
    /\ ~panicked
    /\ it = NoIter
    /\ UNCHANGED <<it, yielded>>
    /\ op' = name
    /\ arg' = a
    /\ res' = out
    /\ UNCHANGED <<root, panicked, abstract>>

Get == \E k \in Vals : Query("get", k, HiSet_get(root, k))

GetByIndex == \E i \in Indices : Query("get_by_index", i, get_by_index(root, i))

IndexOf == \E k \in Vals : Query("index_of", k, index_of(root, k))

Next ==
    \/ Insert
    \/ Get
    \/ GetByIndex
    \/ IndexOf
    \/ TakeFirst
    \/ TakeLast
    \/ Take
    \/ TakeByIndex

Spec == Init /\ [][Next]_vars

\* One call on the set or on its iterator that leaves the tree alone.
IterCall(name, a, out) ==
    /\ ~panicked
    /\ op' = name
    /\ arg' = a
    /\ res' = out.res
    /\ it' = out.it
    /\ UNCHANGED <<root, panicked, abstract>>

Iter ==
    /\ it = NoIter
    /\ IterCall("iter", 0, [it |-> HiSet_iter(root), res |-> None])
    /\ UNCHANGED yielded

Range ==
    /\ ~panicked
    /\ it = NoIter
    /\ \E start_bound \in Bounds, end_bound \in Bounds :
           \E out \in HiSet_range(root, start_bound, end_bound) :
               /\ op' = "range"
               /\ arg' = <<start_bound, end_bound>>
               /\ res' = None
               /\ it' = out.it
               /\ panicked' = out.panic
    /\ UNCHANGED <<root, yielded, abstract>>

IterNext ==
    /\ it.kind = "borrowed"
    /\ IterCall("next", 0, HiSetIterator_next(root, it))
    /\ UNCHANGED yielded

IterNextBack ==
    /\ it.kind = "borrowed"
    /\ IterCall("next_back", 0, HiSetIterator_next_back(root, it))
    /\ UNCHANGED yielded

\* The borrowed iterator goes out of scope.
IterDrop ==
    /\ it.kind = "borrowed"
    /\ IterCall("drop", 0, [it |-> NoIter, res |-> None])
    /\ UNCHANGED yielded

\* into_iter moves the root into the iterator; root stays as the record of
\* the set that was converted.
IntoIter ==
    /\ it = NoIter
    /\ IterCall("into_iter", 0, [it |-> HiSet_into_iter(root), res |-> None])
    /\ UNCHANGED yielded

OwnedNext ==
    /\ it.kind = "owned"
    /\ Len(yielded) < len(root) + ExtraCalls
    /\ IterCall("owned_next", 0, HiSetOwnedIterator_next(it))
    /\ yielded' = Append(yielded, HiSetOwnedIterator_next(it).res)

\* What the mutating methods can make of the set r with the multiset m
\* beside it.
Mutations(r, m) ==
    LET outcome(name, a, t) ==
            [ref      |-> t.ref,
             panic    |-> t.panic,
             abstract |-> AbstractAfter(m, name, a, t.res)]
    IN {outcome("insert", v, HiSet_insert(r, v)) : v \in IF len(r) < MaxLen THEN Vals ELSE {}}
       \cup {outcome("take_first", 0, take_first(r)), outcome("take_last", 0, take_last(r))}
       \cup {outcome("take", k, HiSet_take(r, k)) : k \in Vals}
       \cup {outcome("take_by_index", i, take_by_index(r, i)) : i \in Indices}

\* Any call of insert, take_first, take_last, take or take_by_index between
\* two iterations; what it returned is not recorded here.
Mutate ==
    /\ ~panicked
    /\ it = NoIter
    /\ \E out \in Mutations(root, abstract) :
           /\ root' = out.ref
           /\ panicked' = out.panic
           /\ abstract' = out.abstract
    /\ op' = "mutate"
    /\ arg' = 0
    /\ res' = None
    /\ UNCHANGED <<it, yielded>>

NextIter ==
    \/ Mutate
    \/ Iter
    \/ Range
    \/ IterNext
    \/ IterNextBack
    \/ IterDrop
    \/ IntoIter
    \/ OwnedNext

SpecIter == Init /\ [][NextIter]_vars

\* The input sequences of From::from.
InputSeqs == UNION {[1..n -> Vals] : n \in 0..MaxSeq}

\* Before the call of HiSet::from: the input sequence is its argument.
InitFrom ==
    /\ root = Ref_default
    /\ op = "new"
    /\ arg \in InputSeqs
    /\ res = None
    /\ panicked = FALSE
    /\ it = NoIter
    /\ yielded = <<>>
    /\ abstract = EmptyMultiset

\* HiSet::from(iterator): HiSet::new, then the inserts of the whole input.
From ==
    /\ op = "new"
    /\ LET out == HiSet_from(root, arg)
       IN /\ root' = out.ref
          /\ panicked' = out.panic
    /\ abstract' = AbstractFrom(abstract, root, arg)
    /\ op' = "from"
    /\ UNCHANGED <<arg, res, it, yielded>>

NextFrom == From

SpecFrom == InitFrom /\ [][NextFrom]_vars

\*---------------- claims ---------------------------------------------------

Max(S) == CHOOSE x \in S : \A y \in S : y <= x

Min(S) == CHOOSE x \in S : \A y \in S : x <= y

\* Number of values of S below v: the sorted rank of v in S.
RankIn(S, v) == Cardinality({x \in S : x < v})

StrictlyAscending(seq) == \A i \in 1..(Len(seq) - 1) : seq[i] < seq[i + 1]

\* C1: order invariant.  After any sequence of public operations every
\* node's left subtree holds only smaller values and its right subtree only
\* greater values, so the in-order traversal is strictly ascending.
C1_OrderInvariant == Ordered(root) /\ StrictlyAscending(InOrder(root))

\* C2: balance invariant.  After every public mutation every node's balance
\* factor bitlen(right.count) - bitlen(left.count) lies in [-1, +1].
C2_BalanceInvariant == Balanced(root)

\* C3: count invariant.  After every public operation every Ref has count 0
\* when it owns no node and 1 + left.count + right.count otherwise, and len()
\* is the number of nodes in the tree.
C3_CountInvariant == CountsOk(root) /\ len(root) = Size(root)

\* C3 witness: a removal by key or index has just detached a node from a
\* tree that still has a root with two children.
C3_Witness ==
    /\ op \in {"take", "take_by_index"}
    /\ res # None
    /\ ~is_empty(root)
    /\ ~is_empty(NodeOf(root).left)
    /\ ~is_empty(NodeOf(root).right)

\* C4: take_last() removes and returns the largest value of a non-empty set
\* and returns None on an empty set.
C4_TakeLastLargest ==
    [][op' = "take_last" =>
         IF is_empty(root) THEN res' = None /\ root' = root
         ELSE /\ res' = Some(Max(Values(root)))
              /\ Values(root') = Values(root) \ {Max(Values(root))}]_vars

\* C5: insert(v) returns true iff no value equal to v was in the set before
\* the call; when it returns true len() grows by 1 and v is in the set.
C5_InsertTrueIffNew ==
    [][op' = "insert" =>
         /\ res' = (arg' \notin Values(root))
         /\ res' => len(root') = len(root) + 1 /\ arg' \in Values(root')]_vars

\* C6: get(key) returns the stored element equal to key iff such an element
\* is in the set, and None otherwise.
C6_GetIffMember ==
    op = "get" => res = IF arg \in Values(root) THEN Some(arg) ELSE None

\* C7: take(key) on a set containing key returns that element, decrements
\* len() by 1 and leaves exactly the other elements; a second take(key)
\* returns None.
C7_TakePresent ==
    [][op' = "take" /\ arg' \in Values(root) =>
         /\ res' = Some(arg')
         /\ len(root') = len(root) - 1
         /\ Values(root') = Values(root) \ {arg'}
         /\ HiSet_take(root', arg').res = None]_vars

\* C8: get_by_index(i) returns the element of sorted rank i for every
\* i < len(), and None iff i >= len().
C8_GetByIndexRank ==
    op = "get_by_index" =>
        IF arg < len(root)
        THEN \E v \in Values(root) : RankIn(Values(root), v) = arg /\ res = Some(v)
        ELSE res = None

\* C9: rank consistency.  For every i in [0, len()),
\* index_of(get_by_index(i)) = Some(i); index_of(key) is None for a key not
\* in the set.
C9_RankConsistency ==
    /\ \A i \in 0..(len(root) - 1) :
           /\ get_by_index(root, i) # None
           /\ index_of(root, get_by_index(root, i)[1]) = Some(i)
    /\ \A k \in Vals \ Values(root) : index_of(root, k) = None

\* C10: take_first() removes and returns the smallest value of a non-empty
\* set and decrements len() by 1; it returns None on an empty set.
C10_TakeFirstSmallest ==
    [][op' = "take_first" =>
         IF is_empty(root) THEN res' = None /\ root' = root
         ELSE /\ res' = Some(Min(Values(root)))
              /\ len(root') = len(root) - 1
              /\ Values(root') = Values(root) \ {Min(Values(root))}]_vars

\* The values get_by_index enumerates, index 0 first.
Enumerate(r) == [i \in 1..len(r) |-> get_by_index(r, i - 1)]

\* seq without its element at position p (1-based).
RemoveAt(seq, p) == [i \in 1..(Len(seq) - 1) |-> IF i < p THEN seq[i] ELSE seq[i + 1]]

\* C11: take_by_index(i) with i < len() returns the element get_by_index(i)
\* returned just before the call, decrements len() by 1, and get_by_index
\* then enumerates the remaining elements in their previous relative order.
C11_TakeByIndex ==
    [][op' = "take_by_index" /\ arg' < len(root) =>
         /\ res' = get_by_index(root, arg')
         /\ len(root') = len(root) - 1
         /\ Enumerate(root') = RemoveAt(Enumerate(root), arg' + 1)]_vars

\* C12: duplicate insert is a no-op.  Inserting a value equal to one already
\* in the set returns false and leaves len(), the tree shape, every count and
\* every stored value unchanged.
C12_DuplicateInsertNoOp ==
    [][op' = "insert" /\ arg' \in Values(root) =>
         res' = FALSE /\ root' = root]_vars

\* C13: not-found removal leaves the structure untouched.  take(key) for a
\* key not in the set, take_by_index(i) with i >= len(), and take_first() /
\* take_last() on an empty set return None and leave the tree shape, all
\* counts and all values as before.
C13_NotFoundUntouched ==
    [][\/ op' = "take" /\ arg' \notin Values(root)
       \/ op' = "take_by_index" /\ arg' >= len(root)
       \/ op' \in {"take_first", "take_last"} /\ is_empty(root)
       => res' = None /\ root' = root]_vars

\* C13 witness: take(key) for an absent key has just returned None on a tree
\* of at least three nodes, one of them out of balance.
C13_Witness ==
    /\ op = "take"
    /\ arg \notin Values(root)
    /\ res = None
    /\ len(root) >= 3
    /\ ~Balanced(root)

\* The node at in-order position index under r (None when out of range).
RECURSIVE NodeAt(_, _)
NodeAt(r, index) ==
    IF is_empty(r) THEN None
    ELSE IF NodeOf(r).left.count > index THEN NodeAt(NodeOf(r).left, index)
    ELSE IF NodeOf(r).left.count = index THEN Some(NodeOf(r))
    ELSE NodeAt(NodeOf(r).right, index - 1 - NodeOf(r).left.count)

\* The node at position index has a left and a right child.
HasTwoChildren(r, index) ==
    /\ NodeAt(r, index) # None
    /\ ~is_empty(NodeAt(r, index)[1].left)
    /\ ~is_empty(NodeAt(r, index)[1].right)

\* C14: two-child removal step.  From a tree that satisfies the order and
\* count invariants, take(key) or take_by_index(i) whose target node has both
\* children yields a tree that still satisfies the order invariant and holds
\* exactly the previous values minus the removed one, whichever side
\* supplied the replacement.
C14_TwoChildRemoval ==
    [][/\ Ordered(root) /\ CountsOk(root)
       /\ \/ /\ op' = "take"
             /\ index_of(root, arg') # None
             /\ HasTwoChildren(root, index_of(root, arg')[1])
          \/ /\ op' = "take_by_index"
             /\ HasTwoChildren(root, arg')
       => /\ res' # None
          /\ Ordered(root')
          /\ Values(root') = Values(root) \ {res'[1]}
          /\ len(root') = len(root) - 1]_vars

\* What repeated next() calls yield from the iterator i until the first None.
RECURSIVE DrainForward(_, _)
DrainForward(r, i) ==
    LET t == HiSetIterator_next(r, i)
    IN IF t.res = None THEN <<>> ELSE <<t.res[1]>> \o DrainForward(r, t.it)

\* What repeated next_back() calls yield until the first None.
RECURSIVE DrainBackward(_, _)
DrainBackward(r, i) ==
    LET t == HiSetIterator_next_back(r, i)
    IN IF t.res = None THEN <<>> ELSE <<t.res[1]>> \o DrainBackward(r, t.it)

Reverse(seq) == [j \in 1..Len(seq) |-> seq[Len(seq) + 1 - j]]

\* seq holds the elements of sorted ranks first, first + 1, ... of the set S.
IsRankRun(S, seq, first) ==
    \A j \in 1..Len(seq) : seq[j] \in S /\ RankIn(S, seq[j]) = first + j - 1

\* C15: for index bounds with start <= end <= len(), range(bounds) iterated
\* forward yields exactly the elements at ranks start, ..., end - 1 in that
\* order, and iterated in reverse the same elements in the opposite order;
\* iter() is the case start = 0, end = len().
C15_RangeYieldsRanks ==
    /\ op = "iter" => it.start = 0 /\ it.end = len(root)
    /\ op \in {"iter", "range"} /\ it.start <= it.end /\ it.end <= len(root) =>
           /\ Len(DrainForward(root, it)) = it.end - it.start
           /\ IsRankRun(Values(root), DrainForward(root, it), it.start)
           /\ DrainBackward(root, it) = Reverse(DrainForward(root, it))

\* C16 as stated: for any bounds and any interleaving of next() and
\* next_back(), a call returns None iff start = end at that moment, and
\* otherwise returns an element while next() increments start by 1 and
\* next_back() decrements end by 1.
C16_ExhaustedIffStartEqEnd ==
    [][/\ op' = "next" =>
              /\ (res' = None) = (it.start = it.end)
              /\ res' # None => it'.start = it.start + 1 /\ it'.end = it.end
       /\ op' = "next_back" =>
              /\ (res' = None) = (it.start = it.end)
              /\ res' # None => it'.end = it.end - 1 /\ it'.start = it.start]_vars

\* C16 amended: for any bounds and any interleaving of next() and
\* next_back(), a call returns None iff start >= end at that moment or the
\* index it reads (start for next(), end - 1 for next_back()) is >= len();
\* whenever start < end, next() increments start by 1 and next_back()
\* decrements end by 1, and otherwise the iterator is left as it is.
C16_ExhaustedAmended ==
    [][/\ op' = "next" =>
              /\ (res' = None) = (it.start >= it.end \/ it.start >= len(root))
              /\ it' = IF it.start < it.end
                       THEN [it EXCEPT !.start = it.start + 1] ELSE it
       /\ op' = "next_back" =>
              /\ (res' = None) = (it.start >= it.end \/ it.end - 1 >= len(root))
              /\ it' = IF it.start < it.end
                       THEN [it EXCEPT !.end = it.end - 1] ELSE it]_vars

\* C16 witness: next_back() has just returned an element of an iterator
\* whose front had already advanced, and more elements are left.
C16_Witness ==
    /\ op = "next_back"
    /\ res # None
    /\ it.start >= 1
    /\ it.start < it.end

\* C17: the consuming iterator of a set yields every element exactly once,
\* in strictly ascending order, in exactly len() calls to next(), and None on
\* every later call.
C17_IntoIterAscending ==
    it.kind = "owned" =>
        \A j \in 1..Len(yielded) :
            IF j <= len(root)
            THEN /\ yielded[j] # None
                 /\ yielded[j][1] \in Values(root)
                 /\ RankIn(Values(root), yielded[j][1]) = j - 1
            ELSE yielded[j] = None

\* The ascending sequence of the members of a finite set of integers.
RECURSIVE SortedSeq(_)
SortedSeq(S) ==
    IF S = {} THEN <<>>
    ELSE LET m == CHOOSE x \in S : \A y \in S : x <= y
         IN <<m>> \o SortedSeq(S \ {m})

\* The values that occur in a sequence.
Elems(seq) == {seq[i] : i \in 1..Len(seq)}

\* C18: HiSet::from(sequence) gives a set whose len() is the number of distinct
\* values of the sequence and whose iter() yields exactly those values in
\* ascending order; the result is a function of the set of values alone, so it
\* does not depend on their order or multiplicity in the input.
C18_FromSequence ==
    op = "from"
        => /\ ~panicked
           /\ len(root) = Cardinality(Elems(arg))
           /\ DrainForward(root, HiSet_iter(root)) = SortedSeq(Elems(arg))

\* An unsorted input with a repeated value has been converted.
C18_Witness ==
    /\ op = "from"
    /\ Len(arg) > Cardinality(Elems(arg))
    /\ \E i, j \in 1..Len(arg) : i < j /\ arg[i] > arg[j]
    /\ len(root) >= 3

Abs(x) == IF x < 0 THEN -x ELSE x

\* The inspections of the call that a step makes.
StepInspections == Inspections(root, op', arg')

\* C19: every corrective rotation on the return path of insert,
\* take_leftmost_node, take_rightmost_node or rebalance leaves the rotated
\* reference with a balance factor of strictly smaller magnitude than the
\* factor that triggered the rotation.
C19_RotationReducesMagnitude ==
    [][\A i \in StepInspections :
           i.rotated /\ ~i.panic => Abs(i.after) < Abs(i.balance)]_vars

\* C20: every balance factor inspected on the return path of insert or of a
\* removal, after the count update and before any rotation, is in -2..2.
C20_InspectedFactorRange ==
    [][\A i \in StepInspections : i.balance \in -2..2]_vars

\* C21: no public operation panics or underflows in any reachable state:
\* no rotation without the child to promote, no unwrap of an absent node, no
\* count or index arithmetic that leaves usize.
C21_NoPanic == ~panicked

\* How often the value v occurs in the sequence seq.
Occurrences(seq, v) == Cardinality({p \in 1..Len(seq) : seq[p] = v})

\* The multiset of the values stored in the nodes of a tree.
Multiset(r) == [v \in Vals |-> Occurrences(InOrder(r), v)]

\* The number of elements of the multiset m, counted over the values 1..n.
RECURSIVE MultisetSize(_, _)
MultisetSize(m, n) == IF n = 0 THEN 0 ELSE m[n] + MultisetSize(m, n - 1)

\* C22: element conservation. The abstract multiset, which gains v whenever
\* insert(v) returns true and loses x whenever take, take_by_index,
\* take_first or take_last returns Some(x), equals the multiset of the values
\* stored in the tree's nodes after every operation, and len() is its size.
C22_ElementConservation ==
    /\ Multiset(root) = abstract
    /\ len(root) = MultisetSize(abstract, MaxVal)

\* C22 witness: a removal has returned an element and the set still stores
\* some value twice, so the stored values are a multiset and not a set.
C22_Witness ==
    /\ op \in TakeOps
    /\ res # None
    /\ \E v \in Vals : abstract[v] >= 2

====
